---- MODULE Spec2Model ----
(***************************************************************************)
(* Fare normalisation, ingestion and analytics of the redbus scraper:      *)
(*   src/src/database/data_manager.py   (DataManager)                      *)
(*   src/src/models/database_models.py  (DatabaseManager)                  *)
(*                                                                         *)
(* Text fields are sequences of one-character strings, so that the field   *)
(* extractors and the route-label parser are computed as the code computes *)
(* them.  Parsed numbers are exact decimals [m, e] = m / 10^e.  Storage    *)
(* identities (ObjectId) are the 1-based position of the row in its        *)
(* collection; NoneId is Python's None.                                    *)
(* Time is counted in days.  The analytics compute in exact fractions.     *)
(***************************************************************************)
EXTENDS Integers, Sequences, FiniteSets, TLC

VARIABLES
    routes,             \* collection db.routes
    bus_operators,      \* collection db.bus_operators
    bus_services,       \* collection db.bus_services
    fare_data,          \* collection db.fare_data
    scraping_sessions,  \* collection db.scraping_sessions
    pc,                 \* position of process_scraping_results
    scrape_results,     \* its argument
    stats,              \* its stats dict
    route_id,           \* its local route_id
    session_id,         \* its local session_id
    bus_idx,            \* position of the loop over scrape_results['buses']
    operator_id,        \* _store_bus_data: operator_id
    service_id,         \* _store_bus_data: service_id
    fare_idx,           \* _store_bus_data: position of the loop over detailed_fares
    faults,             \* number of storage operations that raised so far
    obs,                \* history: what happened to each observation of this batch
    raised,             \* history: the storage operations of this batch that raised
    started,            \* history: batches started so far
    submitted,          \* history: observations handed in so far
    calls,              \* direct callers of insert_route / insert_operator (concurrent clients)
    accepted,           \* history: batches whose label parsed, and their observations
    now,                \* datetime.utcnow(), in days
    analytics           \* the analytics call under way: its arguments and what it returned

vars == <<routes, bus_operators, bus_services, fare_data, scraping_sessions,
          pc, scrape_results, stats, route_id, session_id, bus_idx,
          operator_id, service_id, fare_idx, faults, obs, raised, started,
          submitted, calls, accepted, now, analytics>>

store == <<routes, bus_operators, bus_services, fare_data, scraping_sessions>>

locals == <<pc, scrape_results, stats, route_id, session_id, bus_idx,
            operator_id, service_id, fare_idx, faults, obs, raised>>

\* what ingestion only reads
reads == <<now, analytics>>

-----------------------------------------------------------------------------
(* Bounds of the model *)

\* observations handed in over all batches of one behaviour
MaxServices == 2
\* batches (ingest calls) of one behaviour
MaxIngests == 2
\* storage operations that raise in one behaviour
MaxFaults == 1
\* concurrent direct callers of insert_route
NCallers == 2

-----------------------------------------------------------------------------
(* Values *)

\* Python None as an identity
NoneId == 0

\* Python None as a text, the empty string, and the sentinel 'N/A'
NoneText == << "<None>" >>
EmptyText == << >>
NAText == << "N", "/", "A" >>

\* Python None as an integer (a seat count is never negative)
NoneInt == -1

\* Python None as a number; a number is m / 10^e
NoneNum == [m |-> -1, e |-> 0]

DigitChars == << "0", "1", "2", "3", "4", "5", "6", "7", "8", "9" >>
Digit == { DigitChars[k] : k \in 1..10 }
DigitVal(c) == (CHOOSE k \in 1..10 : DigitChars[k] = c) - 1

RECURSIVE ToInt(_)
ToInt(ds) ==
    IF ds = << >> THEN 0
    ELSE 10 * ToInt(SubSeq(ds, 1, Len(ds) - 1)) + DigitVal(ds[Len(ds)])

RECURSIVE Normal(_)
\* the float a decimal denotes: 7.50 and 7.5 are the same number
Normal(d) ==
    IF d.e > 0 /\ d.m % 10 = 0 THEN Normal([m |-> d.m \div 10, e |-> d.e - 1])
    ELSE d

RECURSIVE Pow10(_)
Pow10(n) == IF n = 0 THEN 1 ELSE 10 * Pow10(n - 1)

-----------------------------------------------------------------------------
(* Field extractors: each searches its text for the first numeral, *)
(* digits, an optional dot, digits                                 *)

\* position of the first digit of s, 0 when there is none
FirstDigit(s) ==
    IF \E k \in 1..Len(s) : s[k] \in Digit
    THEN CHOOSE k \in 1..Len(s) :
            /\ s[k] \in Digit
            /\ \A l \in 1..(k - 1) : s[l] \notin Digit
    ELSE 0

\* last position of the run of digits that starts at p (p - 1 when s[p] is no digit)
RunEnd(s, p) ==
    CHOOSE q \in (p - 1)..Len(s) :
        /\ \A l \in p..q : s[l] \in Digit
        /\ (q < Len(s) => s[q + 1] \notin Digit)

\* the first match of \d+\.?\d* in s as a number, NoneNum without a match
NumeralMatch(s) ==
    LET p == FirstDigit(s) IN
    IF p = 0 THEN NoneNum
    ELSE LET q == RunEnd(s, p)
             dot == q < Len(s) /\ s[q + 1] = "."
             r == IF dot THEN RunEnd(s, q + 2) ELSE q
             whole == SubSeq(s, p, q)
             frac == IF dot THEN SubSeq(s, q + 2, r) ELSE << >>
         IN  Normal([m |-> ToInt(whole \o frac), e |-> Len(frac)])

RemoveCommas(s) == SelectSeq(s, LAMBDA c : c # ",")

Falsy(text) == text = NoneText \/ text = EmptyText

_extract_price(price_str) ==
    IF Falsy(price_str) \/ price_str = NAText THEN NoneNum
    ELSE NumeralMatch(RemoveCommas(price_str))

\* the extraction without the range check of line 149: the first numeral
\* whatever its value
_extract_rating_AnyValue(rating_str) ==
    IF Falsy(rating_str) \/ rating_str = NAText THEN NoneNum
    ELSE NumeralMatch(rating_str)

_extract_rating(rating_str) ==
    IF Falsy(rating_str) \/ rating_str = NAText THEN NoneNum
    ELSE LET rating == NumeralMatch(rating_str) IN
         IF rating # NoneNum /\ 0 <= rating.m /\ rating.m <= 5 * Pow10(rating.e)
         THEN rating ELSE NoneNum

_extract_seats_count(seats_str) ==
    IF Falsy(seats_str) \/ seats_str = NAText THEN NoneInt
    ELSE LET p == FirstDigit(seats_str) IN
         IF p = 0 THEN NoneInt
         ELSE ToInt(SubSeq(seats_str, p, RunEnd(seats_str, p)))

\* Python's `x or 0` for an optional seat count (None is -1 here)
OrZero(n) == IF n <= 0 THEN 0 ELSE n

\* a check for absence alone: `if fare_amount is not None`
PositiveFare_NotNone(x) == x # NoneNum

\* Python's `x and x > 0` for an optional number
\* (data_manager.py: `if fare_amount and fare_amount > 0`)
PositiveFare(x) == x # NoneNum /\ x.m > 0

-----------------------------------------------------------------------------
(* Route label parser *)

Separator == << " ", "t", "o", " " >>

\* str.find: the first position >= from where sep occurs in s, 0 when none
Find(s, sep, from) ==
    LET hits == { k \in from..(Len(s) - Len(sep) + 1) :
                    SubSeq(s, k, k + Len(sep) - 1) = sep }
    IN  IF hits = {} THEN 0 ELSE CHOOSE k \in hits : \A l \in hits : k <= l

RECURSIVE Split(_, _)
\* str.split(sep): the pieces between the occurrences of sep, left to right
Split(s, sep) ==
    LET k == Find(s, sep, 1) IN
    IF k = 0 THEN << s >>
    ELSE << SubSeq(s, 1, k - 1) >> \o Split(SubSeq(s, k + Len(sep), Len(s)), sep)

RECURSIVE Strip(_)
\* str.strip(): without leading and trailing blanks
Strip(s) ==
    IF s # << >> /\ s[1] = " " THEN Strip(Tail(s))
    ELSE IF s # << >> /\ s[Len(s)] = " " THEN Strip(SubSeq(s, 1, Len(s) - 1))
    ELSE s

\* Python None as a parsed route
NoneRoute == [source |-> NoneText, destination |-> NoneText]

\* a parser that takes the first two pieces of any split: len(parts) >= 2
_parse_route_info_AtLeastTwo(route_string) ==
    IF Find(route_string, Separator, 1) # 0
    THEN LET parts == Split(route_string, Separator) IN
         [source |-> Strip(parts[1]), destination |-> Strip(parts[2])]
    ELSE NoneRoute

_parse_route_info(route_string) ==
    IF Find(route_string, Separator, 1) # 0
    THEN LET parts == Split(route_string, Separator) IN
         IF Len(parts) = 2
         THEN [source |-> Strip(parts[1]), destination |-> Strip(parts[2])]
         ELSE NoneRoute
    ELSE NoneRoute

-----------------------------------------------------------------------------
(* Storage operations of DatabaseManager.  A row's _id is its position.    *)

\* find_one({"source": source, "destination": destination}): the first match
FindRoute(rows, source, destination) ==
    LET hits == { k \in 1..Len(rows) :
                    rows[k].source = source /\ rows[k].destination = destination }
    IN  IF hits = {} THEN NoneId ELSE CHOOSE k \in hits : \A l \in hits : k <= l

\* the routes collection without its unique index, written by a plain
\* check-free insert: every call adds a row
UpsertRoute_NoUniqueness(rows, source, destination) ==
    Append(rows, [source |-> source, destination |-> destination])

\* update_one(filter, {"$setOnInsert": route_data}, upsert=True) under the
\* unique index on (source, destination): one atomic step of the store that
\* inserts only when no row matches.  The rows afterwards.
UpsertRoute(rows, source, destination) ==
    IF FindRoute(rows, source, destination) # NoneId THEN rows
    ELSE Append(rows, [source |-> source, destination |-> destination])

\* result.upserted_id of that update_one
UpsertedRoute(rows, source, destination) ==
    IF FindRoute(rows, source, destination) # NoneId THEN NoneId
    ELSE Len(rows) + 1

\* find_one({"name": name})
FindOperator(rows, name) ==
    LET hits == { k \in 1..Len(rows) : rows[k].name = name }
    IN  IF hits = {} THEN NoneId ELSE CHOOSE k \in hits : \A l \in hits : k <= l

\* the upsert with "$set" in place of "$setOnInsert": the row that is there is
\* written over
UpsertOperator_Overwrite(rows, name, rating, created_at) ==
    LET hits == { k \in 1..Len(rows) : rows[k].name = name }
        row == [name |-> name, rating |-> rating, created_at |-> created_at]
    IN  IF hits # {} THEN [k \in 1..Len(rows) |-> IF k \in hits THEN row ELSE rows[k]]
        ELSE Append(rows, row)

\* update_one({"name": name}, {"$setOnInsert": operator_data}, upsert=True)
UpsertOperator(rows, name, rating, created_at) ==
    IF FindOperator(rows, name) # NoneId THEN rows
    ELSE Append(rows, [name |-> name, rating |-> rating, created_at |-> created_at])

UpsertedOperator(rows, name) ==
    IF FindOperator(rows, name) # NoneId THEN NoneId ELSE Len(rows) + 1

\* a get-or-create in place of the insert: a service that is already stored
\* is not stored again
InsertServiceRow_Deduplicated(rows, route, operator, bus_data, rating) ==
    LET row == [route_id |-> route, operator_id |-> operator,
                bus_type |-> bus_data.bus_type, rating |-> rating]
    IN  IF \E k \in 1..Len(rows) : rows[k] = row THEN rows ELSE Append(rows, row)

\* insert_one(service_data): always a new row
InsertServiceRow(rows, route, operator, bus_data, rating) ==
    Append(rows, [route_id |-> route, operator_id |-> operator,
                  bus_type |-> bus_data.bus_type, rating |-> rating])

\* the fare_data document insert_fare_data builds
FareRow(service, journey_date, seat_category, fare, available_seats, starting_price) ==
    [service_id |-> service, journey_date |-> journey_date,
     seat_category |-> seat_category, fare |-> fare,
     available_seats |-> available_seats, starting_price |-> starting_price,
     scraped_at |-> now]

\* the document start_scraping_session builds
SessionRow(route, journey_date) ==
    [route_id |-> route, journey_date |-> journey_date,
     total_buses_found |-> 0, successful_scrapes |-> 0,
     status |-> "active", session_end |-> FALSE]

\* the update without its `if status == 'completed'` branch: session_end is
\* never set
UpdateSession_NoSessionEnd(rows, session, total_buses, successful_scrapes, status) ==
    IF session \in 1..Len(rows)
    THEN [rows EXCEPT ![session] =
            [@ EXCEPT !.total_buses_found = total_buses,
                      !.successful_scrapes = successful_scrapes,
                      !.status = status]]
    ELSE rows

\* update_one({"_id": session_id}, {"$set": update_data}) of
\* update_scraping_session(session_id, total_buses, successful_scrapes, status):
\* no row matches NoneId
UpdateSession(rows, session, total_buses, successful_scrapes, status) ==
    IF session \in 1..Len(rows)
    THEN [rows EXCEPT ![session] =
            [@ EXCEPT !.total_buses_found = total_buses,
                      !.successful_scrapes = successful_scrapes,
                      !.status = status,
                      !.session_end = IF status = "completed" THEN TRUE ELSE @]]
    ELSE rows

-----------------------------------------------------------------------------
(* Inputs: scrape payloads *)

Txt_None == NoneText
Txt_NA == NAText
Txt_abc == << "a", "b", "c" >>
Txt_0 == << "0" >>
Txt_500 == << "5", "0", "0" >>
Txt_750 == << "7", "5", "0" >>
Txt_R1250 == << "R", "1", ",", "2", "5", "0" >>
Txt_7_50 == << "7", ".", "5", "0" >>
Txt_4_2stars == << "4", ".", "2", " ", "s" >>
Txt_6_0 == << "6", ".", "0" >>
Txt_12seats == << "1", "2", " ", "s" >>

Fare(category, fare, seats) ==
    [seat_category |-> category, fare |-> fare, available_seats |-> seats]

Bus(name, rating, price, seats, fares) ==
    [operator_name |-> name, bus_type |-> "AC", rating |-> rating,
     starting_price |-> price, seats_available |-> seats, detailed_fares |-> fares]

\* bus observations: with and without nested fares, with valid, zero,
\* unparsable and missing prices and ratings
Buses ==
    { Bus("X", Txt_4_2stars, Txt_750, Txt_12seats, << >>),
      Bus("Y", Txt_6_0, Txt_NA, Txt_None,
          << Fare("Seater", Txt_500, Txt_12seats), Fare("Sleeper", Txt_0, Txt_None) >>),
      Bus("X", Txt_abc, Txt_abc, Txt_None, << >>),
      Bus("Y", Txt_4_2stars, Txt_750, Txt_NA, << Fare("Sleeper", Txt_0, Txt_12seats) >>),
      Bus("X", Txt_NA, Txt_0, Txt_12seats, << >>),
      Bus("Y", Txt_None, Txt_7_50, Txt_12seats,
          << Fare("Seater", Txt_R1250, Txt_NA), Fare("Sleeper", Txt_7_50, Txt_12seats) >>) }

Label_AtoB == << "A", " ", "t", "o", " ", "B" >>
Label_BtoA == << "B", " ", "t", "o", " ", "A" >>
Label_AB == << "A", "t", "o", "B" >>
Label_AtoBtoC == << "A", " ", "t", "o", " ", "B", " ", "t", "o", " ", "C" >>

RouteLabels == { Label_AtoB, Label_BtoA, Label_AB, Label_AtoBtoC }

\* journey dates "2024-01-0d", by their day d
JourneyDates == { 1, 2 }

RECURSIVE SeqsUpTo(_, _)
SeqsUpTo(S, n) ==
    IF n = 0 THEN { << >> }
    ELSE LET shorter == SeqsUpTo(S, n - 1) IN
         shorter \cup { Append(q, x) : q \in shorter, x \in S }

Payloads(n) ==
    [route : RouteLabels, journey_date : JourneyDates, buses : SeqsUpTo(Buses, n)]

NoPayload == [route |-> NoneText, journey_date |-> 0, buses |-> << >>]

-----------------------------------------------------------------------------
(* State *)

NewStats ==
    [route_processed |-> FALSE, total_buses |-> 0,
     successfully_stored |-> 0, errors |-> << >>]

Callers == 1..NCallers

\* no analytics call is under way
NoQuery == [call |-> "none"]

\* overlapped: history, another call for the same pair was in flight meanwhile
IdleCall == [pc |-> "idle", source |-> NoneText, destination |-> NoneText,
             result |-> NoneId, overlapped |-> FALSE]

Init ==
    /\ routes = << >>
    /\ bus_operators = << >>
    /\ bus_services = << >>
    /\ fare_data = << >>
    /\ scraping_sessions = << >>
    /\ pc = "idle"
    /\ scrape_results = NoPayload
    /\ stats = NewStats
    /\ route_id = NoneId
    /\ session_id = NoneId
    /\ bus_idx = 0
    /\ operator_id = NoneId
    /\ service_id = NoneId
    /\ fare_idx = 0
    /\ faults = 0
    /\ obs = << >>
    /\ raised = {}
    /\ started = 0
    /\ submitted = 0
    /\ calls = [c \in Callers |-> IdleCall]
    /\ accepted = [batches |-> 0, observations |-> 0]
    /\ now = 0
    /\ analytics = NoQuery

\* a storage operation may raise (the driver's exception), within the bound
CanFault == faults < MaxFaults

bus_data == scrape_results.buses[bus_idx]

\* the history entry of the observation being processed
\* (the sizes of bus_services and fare_data and the successfully_stored count
\* when it began and when it ended, the service_id it worked with, whether an
\* operation of it raised, and what _store_bus_data returned)
NewObs(i) == [bus |-> i, services_before |-> Len(bus_services),
              fares_before |-> Len(fare_data),
              stored_before |-> stats.successfully_stored,
              services_after |-> 0, fares_after |-> 0, stored_after |-> 0,
              service |-> NoneId, faulted |-> FALSE, result |-> "running"]

ObsFault(h) == [h EXCEPT ![Len(h)].faulted = TRUE]
ObsService(h, id) == [h EXCEPT ![Len(h)].service = id]
ObsResult(h, r, nservices, nfares, nstored) ==
    [h EXCEPT ![Len(h)].result = r,
              ![Len(h)].services_after = nservices,
              ![Len(h)].fares_after = nfares,
              ![Len(h)].stored_after = nstored]

-----------------------------------------------------------------------------
(* process_scraping_results *)

\* lines 16-27: the stats dict, the route label
Ingest(p) ==
    /\ pc = "idle"
    /\ started < MaxIngests
    /\ submitted + Len(p.buses) <= MaxServices
    /\ started' = started + 1
    /\ submitted' = submitted + Len(p.buses)
    /\ scrape_results' = p
    /\ IF _parse_route_info(p.route) = NoneRoute
       THEN /\ stats' = [NewStats EXCEPT
                            !.errors = << "Could not parse route information" >>]
            /\ pc' = "done"
            /\ UNCHANGED accepted
       ELSE /\ stats' = NewStats
            /\ pc' = "insert_route"
            /\ accepted' = [batches |-> accepted.batches + 1,
                            observations |-> accepted.observations + Len(p.buses)]
    /\ UNCHANGED <<store, route_id, session_id, bus_idx, operator_id,
                   service_id, fare_idx, obs, raised, faults, calls, reads>>

\* insert_route, lines 99-103: the upsert; lines 111-113: it raised
InsertRoute ==
    /\ pc = "insert_route"
    /\ LET info == _parse_route_info(scrape_results.route) IN
       \/ /\ routes' = UpsertRoute(routes, info.source, info.destination)
          /\ LET upserted_id == UpsertedRoute(routes, info.source, info.destination) IN
             IF upserted_id # NoneId
             THEN route_id' = upserted_id /\ pc' = "start_session"
             ELSE route_id' = route_id /\ pc' = "find_route"
          /\ UNCHANGED <<faults, raised>>
       \/ /\ CanFault
          /\ faults' = faults + 1
          /\ raised' = raised \cup {"insert_route"}
          /\ route_id' = NoneId
          /\ pc' = "start_session"
          /\ UNCHANGED routes
    /\ UNCHANGED <<bus_operators, bus_services, fare_data, scraping_sessions,
                   scrape_results, stats, session_id, bus_idx, operator_id,
                   service_id, fare_idx, obs, started, submitted, calls, accepted, reads>>

\* insert_route, lines 107-109: the row exists, fetch it
FindExistingRoute ==
    /\ pc = "find_route"
    /\ LET info == _parse_route_info(scrape_results.route) IN
       \/ /\ route_id' = FindRoute(routes, info.source, info.destination)
          /\ UNCHANGED <<faults, raised>>
       \/ /\ CanFault
          /\ faults' = faults + 1
          /\ raised' = raised \cup {"insert_route"}
          /\ route_id' = NoneId
    /\ pc' = "start_session"
    /\ UNCHANGED <<store, scrape_results, stats, session_id, bus_idx,
                   operator_id, service_id, fare_idx, obs, started, submitted, calls, accepted, reads>>

\* a loop that gives up at the first observation that is not stored
AfterObservation_StopAtFailure(success, i, n) ==
    IF success /\ i < n THEN "insert_operator" ELSE "update_session"

\* lines 41-49: where the loop over the buses goes once observation i of n is
\* through, whatever _store_bus_data returned
AfterObservation(success, i, n) ==
    IF i < n THEN "insert_operator" ELSE "update_session"

\* start_scraping_session, then line 39 and the entry of the loop
StartSession ==
    /\ pc = "start_session"
    /\ \/ /\ scraping_sessions' =
                Append(scraping_sessions, SessionRow(route_id, scrape_results.journey_date))
          /\ session_id' = Len(scraping_sessions) + 1
          /\ UNCHANGED <<faults, raised>>
       \/ /\ CanFault
          /\ faults' = faults + 1
          /\ raised' = raised \cup {"start_scraping_session"}
          /\ session_id' = NoneId
          /\ UNCHANGED scraping_sessions
    /\ stats' = [stats EXCEPT !.total_buses = Len(scrape_results.buses)]
    /\ pc' = IF Len(scrape_results.buses) > 0 THEN "insert_operator"
             ELSE "update_session"
    /\ bus_idx' = IF Len(scrape_results.buses) > 0 THEN 1 ELSE 0
    /\ UNCHANGED <<routes, bus_operators, bus_services, fare_data,
                   scrape_results, route_id, operator_id, service_id,
                   fare_idx, obs, started, submitted, calls, accepted, reads>>

\* lines 43-49 once _store_bus_data has returned `success`, and the loop's step
\* (nservices, nfares: the sizes of bus_services and fare_data it leaves)
Returned(success, history, nservices, nfares) ==
    /\ stats' = [stats EXCEPT !.successfully_stored =
                                IF success THEN @ + 1 ELSE @]
    /\ obs' = ObsResult(history, IF success THEN "True" ELSE "False",
                        nservices, nfares, stats'.successfully_stored)
    /\ pc' = AfterObservation(success, bus_idx, Len(scrape_results.buses))
    /\ bus_idx' = IF bus_idx < Len(scrape_results.buses) THEN bus_idx + 1 ELSE bus_idx

\* _store_bus_data, lines 84-93: insert_operator's upsert
InsertOperator ==
    /\ pc = "insert_operator"
    /\ LET name == bus_data.operator_name
           rating == _extract_rating(bus_data.rating)
           history == Append(obs, NewObs(bus_idx))
       IN
       \/ /\ bus_operators' = UpsertOperator(bus_operators, name, rating, now)
          /\ LET upserted_id == UpsertedOperator(bus_operators, name) IN
             IF upserted_id # NoneId
             THEN operator_id' = upserted_id /\ pc' = "insert_service"
             ELSE operator_id' = operator_id /\ pc' = "find_operator"
          /\ obs' = history
          /\ UNCHANGED <<faults, raised, stats, bus_idx>>
       \/ /\ CanFault
          /\ faults' = faults + 1
          /\ raised' = raised \cup {"insert_operator"}
          /\ operator_id' = NoneId
          /\ Returned(FALSE, ObsFault(history), Len(bus_services), Len(fare_data))
          /\ UNCHANGED bus_operators
    /\ UNCHANGED <<routes, bus_services, fare_data, scraping_sessions,
                   scrape_results, route_id, session_id, service_id, fare_idx, started, submitted, calls, accepted, reads>>

\* insert_operator, lines 132-134, then line 92
FindExistingOperator ==
    /\ pc = "find_operator"
    /\ \/ /\ operator_id' = FindOperator(bus_operators, bus_data.operator_name)
          /\ pc' = "insert_service"
          /\ UNCHANGED <<faults, raised, stats, bus_idx, obs>>
       \/ /\ CanFault
          /\ faults' = faults + 1
          /\ raised' = raised \cup {"insert_operator"}
          /\ operator_id' = NoneId
          /\ Returned(FALSE, ObsFault(obs), Len(bus_services), Len(fare_data))
    /\ UNCHANGED <<store, scrape_results, route_id, session_id, service_id,
                   fare_idx, started, submitted, calls, accepted, reads>>

\* the fallback without its range check: `if starting_price is not None`
FarePlan_NoPositiveCheck(detailed_fares, starting_price) ==
    IF detailed_fares # << >> THEN "detailed"
    ELSE IF starting_price # NoneNum THEN "standard"
    ELSE "none"

\* the fallback taken whenever no nested entry has a fare above zero
FarePlan_FallbackWhenNoneValid(detailed_fares, starting_price) ==
    IF \E n \in 1..Len(detailed_fares) :
          PositiveFare(_extract_price(detailed_fares[n].fare))
    THEN "detailed"
    ELSE IF PositiveFare(starting_price) THEN "standard"
    ELSE "none"

\* _store_bus_data, lines 108 and 123: which fares the observation gets
FarePlan(detailed_fares, starting_price) ==
    IF detailed_fares # << >> THEN "detailed"
    ELSE IF PositiveFare(starting_price) THEN "standard"
    ELSE "none"

\* _store_bus_data, lines 95-108: insert_service, then the choice of the fares
InsertService ==
    /\ pc = "insert_service"
    /\ LET rating == _extract_rating(bus_data.rating)
           starting_price == _extract_price(bus_data.starting_price)
           plan == FarePlan(bus_data.detailed_fares, starting_price)
           id == Len(bus_services) + 1
       IN
       /\ \E failed \in {FALSE, TRUE} :
            /\ IF failed
               THEN /\ CanFault
                    /\ faults' = faults + 1
                    /\ raised' = raised \cup {"insert_service"}
                    /\ service_id' = NoneId
                    /\ UNCHANGED bus_services
               ELSE /\ bus_services' =
                          InsertServiceRow(bus_services, route_id, operator_id,
                                           bus_data, rating)
                    /\ service_id' = id
                    /\ UNCHANGED <<faults, raised>>
            /\ LET history == IF failed THEN ObsFault(obs) ELSE ObsService(obs, id)
                   nservices == IF failed THEN Len(bus_services) ELSE id
               IN IF plan = "none"
                  THEN /\ Returned(TRUE, history, nservices, Len(fare_data))
                       /\ UNCHANGED fare_idx
                  ELSE /\ obs' = history
                       /\ pc' = IF plan = "detailed" THEN "insert_fare"
                                ELSE "insert_standard_fare"
                       /\ fare_idx' = IF plan = "detailed" THEN 1 ELSE 0
                       /\ UNCHANGED <<stats, bus_idx>>
    /\ UNCHANGED <<routes, bus_operators, fare_data, scraping_sessions,
                   scrape_results, route_id, session_id, operator_id, started, submitted, calls, accepted, reads>>

\* the row of a nested entry read under the wrong key: every category is
\* the default 'Unknown'
DetailedFareRow_UnknownCategory(service, journey_date, fare_detail, starting_price) ==
    FareRow(service, journey_date, "Unknown",
            _extract_price(fare_detail.fare),
            OrZero(_extract_seats_count(fare_detail.available_seats)),
            starting_price)

\* the row of nested entry fare_detail (lines 114-121)
DetailedFareRow(service, journey_date, fare_detail, starting_price) ==
    FareRow(service, journey_date, fare_detail.seat_category,
            _extract_price(fare_detail.fare),
            OrZero(_extract_seats_count(fare_detail.available_seats)),
            starting_price)

\* the fallback row without the fixed category
StandardFareRow_UnknownCategory(service, journey_date, seats_available, starting_price) ==
    FareRow(service, journey_date, "Unknown", starting_price,
            OrZero(_extract_seats_count(seats_available)), starting_price)

\* the row of the starting price (lines 125-132)
StandardFareRow(service, journey_date, seats_available, starting_price) ==
    FareRow(service, journey_date, "Standard", starting_price,
            OrZero(_extract_seats_count(seats_available)), starting_price)

\* _store_bus_data, lines 109-121: one turn of the loop over detailed_fares
InsertDetailedFare ==
    /\ pc = "insert_fare"
    /\ LET fare_detail == bus_data.detailed_fares[fare_idx]
           starting_price == _extract_price(bus_data.starting_price)
           last == fare_idx = Len(bus_data.detailed_fares)
           id == Len(fare_data) + 1
       IN
       \E outcome \in {"skipped", "stored", "raised"} :
          /\ (outcome = "skipped") = ~PositiveFare(_extract_price(fare_detail.fare))
          /\ outcome = "raised" => CanFault
          /\ faults' = IF outcome = "raised" THEN faults + 1 ELSE faults
          /\ raised' = IF outcome = "raised"
                       THEN raised \cup {"insert_fare_data"} ELSE raised
          /\ fare_data' =
                IF outcome = "stored"
                THEN Append(fare_data,
                            DetailedFareRow(service_id, scrape_results.journey_date,
                                            fare_detail, starting_price))
                ELSE fare_data
          /\ LET history == IF outcome = "raised" THEN ObsFault(obs) ELSE obs
                 nfares == IF outcome = "stored" THEN id ELSE Len(fare_data)
             IN IF last
                THEN /\ Returned(TRUE, history, Len(bus_services), nfares)
                     /\ UNCHANGED fare_idx
                ELSE /\ obs' = history
                     /\ fare_idx' = fare_idx + 1
                     /\ UNCHANGED <<pc, stats, bus_idx>>
    /\ UNCHANGED <<routes, bus_operators, bus_services, scraping_sessions,
                   scrape_results, route_id, session_id, operator_id, service_id,
                   started, submitted, calls, accepted, reads>>

\* _store_bus_data, lines 123-134: the "Standard" row of the starting price
InsertStandardFare ==
    /\ pc = "insert_standard_fare"
    /\ LET starting_price == _extract_price(bus_data.starting_price)
           id == Len(fare_data) + 1
       IN
       \/ /\ fare_data' =
                Append(fare_data,
                       StandardFareRow(service_id, scrape_results.journey_date,
                                       bus_data.seats_available, starting_price))
          /\ Returned(TRUE, obs, Len(bus_services), id)
          /\ UNCHANGED <<faults, raised>>
       \/ /\ CanFault
          /\ faults' = faults + 1
          /\ raised' = raised \cup {"insert_fare_data"}
          /\ Returned(TRUE, ObsFault(obs), Len(bus_services), Len(fare_data))
          /\ UNCHANGED fare_data
    /\ UNCHANGED <<routes, bus_operators, bus_services, scraping_sessions,
                   scrape_results, route_id, session_id, operator_id, service_id,
                   fare_idx, started, submitted, calls, accepted, reads>>

\* lines 51-58: update_scraping_session (which swallows what it raises)
UpdateScrapingSession ==
    /\ pc = "update_session"
    /\ \/ /\ scraping_sessions' =
                UpdateSession(scraping_sessions, session_id, stats.total_buses,
                              stats.successfully_stored, "completed")
          /\ UNCHANGED <<faults, raised>>
       \/ /\ CanFault
          /\ faults' = faults + 1
          /\ raised' = raised \cup {"update_scraping_session"}
          /\ UNCHANGED scraping_sessions
    /\ stats' = [stats EXCEPT !.route_processed = TRUE]
    /\ pc' = "done"
    /\ UNCHANGED <<routes, bus_operators, bus_services, fare_data,
                   scrape_results, route_id, session_id, bus_idx, operator_id,
                   service_id, fare_idx, obs, started, submitted, calls, accepted, reads>>

\* the locals of a call that is over are gone
Forgotten ==
    /\ pc' = "idle"
    /\ scrape_results' = NoPayload
    /\ stats' = NewStats
    /\ route_id' = NoneId
    /\ session_id' = NoneId
    /\ bus_idx' = 0
    /\ operator_id' = NoneId
    /\ service_id' = NoneId
    /\ fare_idx' = 0
    /\ obs' = << >>
    /\ raised' = {}

\* line 65: the caller has the stats; the next batch may come
Return ==
    /\ pc = "done"
    /\ Forgotten
    /\ UNCHANGED <<store, faults, started, submitted, calls, accepted, reads>>

Running == pc \notin {"idle", "done"}

\* the process stops midway (a crash, counted with the failures): nothing more
\* of this batch is written
Crash ==
    /\ Running
    /\ CanFault
    /\ faults' = faults + 1
    /\ Forgotten
    /\ UNCHANGED <<store, started, submitted, calls, accepted, reads>>

Next ==
    \/ \E p \in Payloads(MaxServices) : Ingest(p)
    \/ InsertRoute
    \/ FindExistingRoute
    \/ StartSession
    \/ InsertOperator
    \/ FindExistingOperator
    \/ InsertService
    \/ InsertDetailedFare
    \/ InsertStandardFare
    \/ UpdateScrapingSession
    \/ Return
    \/ Crash

Spec == Init /\ [][Next]_vars

-----------------------------------------------------------------------------
(* insert_route called directly by concurrent clients of one store *)

\* the (source, destination) pairs the clients ask for
RoutePairs == { << << "A" >>, << "B" >> >>, << << "B" >>, << "A" >> >> }

InFlight(c) == calls[c].pc \in {"upsert", "find"}

SamePair(c, source, destination) ==
    calls[c].source = source /\ calls[c].destination = destination

\* a client enters insert_route(source, destination)
CallInsertRoute(c, source, destination) ==
    /\ calls[c].pc = "idle"
    /\ calls' = [d \in Callers |->
                    IF d = c
                    THEN [pc |-> "upsert", source |-> source,
                          destination |-> destination, result |-> NoneId,
                          overlapped |-> \E o \in Callers \ {c} :
                                            InFlight(o) /\ SamePair(o, source, destination)]
                    ELSE IF InFlight(d) /\ SamePair(d, source, destination)
                    THEN [calls[d] EXCEPT !.overlapped = TRUE]
                    ELSE calls[d]]
    /\ UNCHANGED <<store, locals, started, submitted, accepted, reads>>

\* insert_route, lines 99-106: the store's atomic upsert and its upserted_id
CallUpsert(c) ==
    /\ calls[c].pc = "upsert"
    /\ LET source == calls[c].source
           destination == calls[c].destination
           upserted_id == UpsertedRoute(routes, source, destination)
       IN /\ routes' = UpsertRoute(routes, source, destination)
          /\ calls' = [calls EXCEPT
                         ![c].pc = IF upserted_id # NoneId THEN "done" ELSE "find",
                         ![c].result = upserted_id]
    /\ UNCHANGED <<bus_operators, bus_services, fare_data, scraping_sessions,
                   locals, started, submitted, accepted, reads>>

\* insert_route, lines 107-109: fetch the row that was there
CallFind(c) ==
    /\ calls[c].pc = "find"
    /\ calls' = [calls EXCEPT
                    ![c].pc = "done",
                    ![c].result = FindRoute(routes, calls[c].source, calls[c].destination)]
    /\ UNCHANGED <<store, locals, started, submitted, accepted, reads>>

\* the client has its identity and may call again
CallReturn(c) ==
    /\ calls[c].pc = "done"
    /\ calls' = [calls EXCEPT ![c] = IdleCall]
    /\ UNCHANGED <<store, locals, started, submitted, accepted, reads>>

NextRoute ==
    \E c \in Callers :
        \/ \E pair \in RoutePairs : CallInsertRoute(c, pair[1], pair[2])
        \/ CallUpsert(c)
        \/ CallFind(c)
        \/ CallReturn(c)

SpecRoute == Init /\ [][NextRoute]_vars

\* the rows of a (source, destination) pair
RowsOf(source, destination) ==
    { k \in 1..Len(routes) :
        routes[k].source = source /\ routes[k].destination = destination }

\* C1: however insert_route calls for one (source, destination) pair interleave,
\* the store never holds two Route rows for a pair, and every call that has
\* returned got the identity of the pair's one row.
C1_RouteConverges ==
    /\ \A k \in 1..Len(routes) :
          RowsOf(routes[k].source, routes[k].destination) = {k}
    /\ \A c \in Callers :
          calls[c].pc = "done" =>
             RowsOf(calls[c].source, calls[c].destination) = {calls[c].result}

\* two calls for the same pair overlapped and both have returned the same row
C1_Witness ==
    /\ calls[1].pc = "done" /\ calls[2].pc = "done"
    /\ calls[1].overlapped /\ calls[2].overlapped
    /\ SamePair(1, calls[2].source, calls[2].destination)
    /\ calls[1].result = calls[2].result
    /\ calls[1].result # NoneId

-----------------------------------------------------------------------------
(* insert_operator called directly by concurrent clients of one store, while
   the clock advances *)

\* the clock's last reading in one behaviour
MaxTime == 1

OperatorNames == { "X", "Y" }

\* the ratings the clients pass: what _extract_rating makes of a rating text
OperatorRatings == { _extract_rating(t) : t \in { Txt_None, Txt_4_2stars, Txt_6_0 } }

\* time passes
Tick ==
    /\ now < MaxTime
    /\ now' = now + 1
    /\ UNCHANGED <<store, locals, started, submitted, calls, accepted, analytics>>

\* a client enters insert_operator(name, rating); lines 118-122: operator_data
\* (seen: history, the row of that name when the call began)
CallInsertOperator(c, name, rating) ==
    /\ calls[c].pc = "idle"
    /\ calls' = [calls EXCEPT ![c] =
                    [pc |-> "upsert_operator", name |-> name, rating |-> rating,
                     created_at |-> now, result |-> NoneId,
                     seen |-> FindOperator(bus_operators, name)]]
    /\ UNCHANGED <<store, locals, started, submitted, accepted, reads>>

\* insert_operator, lines 124-131: the store's atomic upsert and its upserted_id
CallUpsertOperator(c) ==
    /\ calls[c].pc = "upsert_operator"
    /\ LET upserted_id == UpsertedOperator(bus_operators, calls[c].name) IN
       /\ bus_operators' = UpsertOperator(bus_operators, calls[c].name, calls[c].rating,
                                         calls[c].created_at)
       /\ calls' = [calls EXCEPT
                      ![c].pc = IF upserted_id # NoneId THEN "done" ELSE "find_operator",
                      ![c].result = upserted_id]
    /\ UNCHANGED <<routes, bus_services, fare_data, scraping_sessions,
                   locals, started, submitted, accepted, reads>>

\* insert_operator, lines 132-134: fetch the row that was there
CallFindOperator(c) ==
    /\ calls[c].pc = "find_operator"
    /\ calls' = [calls EXCEPT
                    ![c].pc = "done",
                    ![c].result = FindOperator(bus_operators, calls[c].name)]
    /\ UNCHANGED <<store, locals, started, submitted, accepted, reads>>

NextOperator ==
    \/ Tick
    \/ \E c \in Callers :
          \/ \E name \in OperatorNames, rating \in OperatorRatings :
                CallInsertOperator(c, name, rating)
          \/ CallUpsertOperator(c)
          \/ CallFindOperator(c)
          \/ CallReturn(c)

SpecOperator == Init /\ [][NextOperator]_vars

\* the rows of an operator name
OperatorRowsOf(name) == { k \in 1..Len(bus_operators) : bus_operators[k].name = name }

\* an insert_operator call that has returned
OperatorCallDone(c) == calls[c].pc = "done" /\ "name" \in DOMAIN calls[c]

\* C14: the store never holds two Operator rows of one name; a row, once
\* written, keeps its name, rating and created_at whatever insert_operator
\* calls follow; and a call that has returned got the identity of the one row
\* of its name, the row that was there when the call began if there was one.
C14_OperatorFirstWriteWins ==
    /\ [](/\ \A k \in 1..Len(bus_operators) :
                OperatorRowsOf(bus_operators[k].name) = {k}
          /\ \A c \in Callers :
                OperatorCallDone(c) =>
                   /\ OperatorRowsOf(calls[c].name) = {calls[c].result}
                   /\ calls[c].seen # NoneId => calls[c].result = calls[c].seen)
    /\ [][/\ Len(bus_operators') >= Len(bus_operators)
          /\ \A k \in 1..Len(bus_operators) : bus_operators'[k] = bus_operators[k]]_vars

\* a call with another rating, made after the clock moved on, has returned the
\* row that was there, and the row still has its first rating and created_at
C14_Witness ==
    \E c \in Callers :
        /\ OperatorCallDone(c)
        /\ calls[c].seen # NoneId
        /\ calls[c].result = calls[c].seen
        /\ bus_operators[calls[c].result].rating # calls[c].rating
        /\ bus_operators[calls[c].result].created_at < now

-----------------------------------------------------------------------------
(* Properties of a batch *)

\* the route label of the batch parsed
Parsed == _parse_route_info(scrape_results.route) # NoneRoute

\* the observations of this batch that _store_bus_data has returned from
Finished == { k \in 1..Len(obs) : obs[k].result # "running" }

\* those among them during which no storage operation raised
Healthy == { k \in Finished : ~obs[k].faulted }

BusOf(k) == scrape_results.buses[obs[k].bus]

\* the fare_data rows observation k left
RowsWritten(k) == SubSeq(fare_data, obs[k].fares_before + 1, obs[k].fares_after)

\* the text holds a numeral and its value is above zero
ParsesPositive(text) ==
    LET x == _extract_price(text) IN x # NoneNum /\ x.m > 0

PositiveEntry(fare_detail) == ParsesPositive(fare_detail.fare)

\* C2: in every reachable state each FareData row's service_id is the identity
\* of a stored Service row.
C2_FareReferencesService ==
    \A k \in 1..Len(fare_data) : fare_data[k].service_id \in 1..Len(bus_services)

\* the session row of this batch is finished with the batch's totals
SessionFinished ==
    /\ session_id \in 1..Len(scraping_sessions)
    /\ scraping_sessions[session_id].status = "completed"
    /\ scraping_sessions[session_id].session_end
    /\ scraping_sessions[session_id].total_buses_found = Len(scrape_results.buses)

\* C3: the observations of a batch are attempted one by one in payload order,
\* and a batch with a parseable label that has returned attempted every
\* observation of its payload, whatever failed on the way, reached the
\* finish of its session and reports route_processed.
C3_EveryObservationAttempted ==
    /\ \A k \in 1..Len(obs) : obs[k].bus = k
    /\ Len(obs) <= Len(scrape_results.buses)
    /\ (pc = "done" /\ Parsed) =>
          /\ Len(obs) = Len(scrape_results.buses)
          /\ Finished = 1..Len(obs)
          /\ stats.route_processed
          /\ (session_id # NoneId /\ "update_scraping_session" \notin raised)
                => SessionFinished

\* the first of two observations failed, the second was stored, the session
\* is finished
C3_Witness ==
    /\ pc = "done"
    /\ Len(obs) = 2
    /\ obs[1].faulted /\ obs[1].result = "False"
    /\ obs[2].result = "True" /\ obs[2].services_after = obs[2].services_before + 1
    /\ SessionFinished

\* C4: the errors of the returned stats hold at least one message for every
\* observation whose processing failed.
C4_FailuresReported ==
    pc = "done" =>
        Len(stats.errors) >= Cardinality({ k \in Finished : obs[k].faulted })

\* C5: the successfully_stored of the returned stats is the number of
\* observations of the batch that left a Service row.
C5_StoredCountsServices ==
    (pc = "done" /\ Parsed) =>
        stats.successfully_stored =
            Cardinality({ k \in Finished :
                            obs[k].services_after = obs[k].services_before + 1 })

\* C6: every stored FareData row has a fare above zero.
C6_FaresPositive ==
    \A k \in 1..Len(fare_data) :
        fare_data[k].fare # NoneNum /\ fare_data[k].fare.m > 0

\* an observation with a nested fare of zero went through and left a row
C6_Witness ==
    \E k \in Finished :
        /\ \E n \in 1..Len(BusOf(k).detailed_fares) :
              _extract_price(BusOf(k).detailed_fares[n].fare) = [m |-> 0, e |-> 0]
        /\ RowsWritten(k) # << >>

\* C7: an observation with nested fares, stored without a storage failure,
\* leaves one FareData row per nested entry whose fare parses above zero, in
\* their order, each with the entry's seat_category and the identity of the
\* observation's Service row, leaves none for the other entries, and adds
\* nothing to errors.
C7_DetailedFares ==
    \A k \in Healthy :
        BusOf(k).detailed_fares # << >> =>
            LET rows == RowsWritten(k)
                valid == SelectSeq(BusOf(k).detailed_fares, PositiveEntry)
            IN  /\ Len(rows) = Len(valid)
                /\ \A n \in 1..Len(rows) :
                      /\ rows[n].seat_category = valid[n].seat_category
                      /\ rows[n].fare = _extract_price(valid[n].fare)
                      /\ rows[n].service_id = obs[k].service
                /\ obs[k].service = obs[k].services_after
                /\ obs[k].services_after = obs[k].services_before + 1
                /\ stats.errors = << >>

\* an observation with a valid and an invalid nested entry left one row
C7_Witness ==
    \E k \in Healthy :
        /\ Len(BusOf(k).detailed_fares) = 2
        /\ PositiveEntry(BusOf(k).detailed_fares[1])
        /\ ~PositiveEntry(BusOf(k).detailed_fares[2])
        /\ Len(RowsWritten(k)) = 1
        /\ RowsWritten(k)[1].seat_category = "Seater"

\* C8: an observation without nested fares whose starting_price parses above
\* zero, stored without a storage failure, leaves exactly one FareData row,
\* with seat_category "Standard", the parsed starting price as its fare and
\* the identity of the observation's Service row.
C8_StandardFare ==
    \A k \in Healthy :
        (BusOf(k).detailed_fares = << >> /\ ParsesPositive(BusOf(k).starting_price)) =>
            LET rows == RowsWritten(k) IN
            /\ Len(rows) = 1
            /\ rows[1].seat_category = "Standard"
            /\ rows[1].fare = _extract_price(BusOf(k).starting_price)
            /\ rows[1].service_id = obs[k].service
            /\ obs[k].service = obs[k].services_after

\* the observation priced "750" left its Standard row of 750
C8_Witness ==
    \E k \in Healthy :
        /\ BusOf(k).detailed_fares = << >>
        /\ BusOf(k).starting_price = Txt_750
        /\ Len(RowsWritten(k)) = 1
        /\ RowsWritten(k)[1].fare = [m |-> 750, e |-> 0]

\* C9: an observation without nested fares and without a starting_price that
\* parses above zero, stored without a storage failure, leaves exactly one
\* Service row and no FareData row, is counted in successfully_stored and adds
\* nothing to errors; a batch without a storage failure returns
\* successfully_stored = total_buses = the size of the payload and no errors.
C9_NoPriceStillStored ==
    /\ \A k \in Healthy :
          (BusOf(k).detailed_fares = << >> /\ ~ParsesPositive(BusOf(k).starting_price)) =>
              /\ obs[k].services_after = obs[k].services_before + 1
              /\ obs[k].fares_after = obs[k].fares_before
              /\ \A f \in 1..Len(fare_data) : fare_data[f].service_id # obs[k].service
              /\ obs[k].stored_after = obs[k].stored_before + 1
              /\ stats.errors = << >>
    /\ (pc = "done" /\ Parsed /\ raised = {}) =>
          /\ stats.total_buses = Len(scrape_results.buses)
          /\ stats.successfully_stored = Len(scrape_results.buses)
          /\ stats.errors = << >>

\* a batch of a priced observation and one with an unparsable price returned
\* 2 of 2 stored, no errors, and left one FareData row
C9_Witness ==
    /\ pc = "done" /\ raised = {}
    /\ Len(obs) = 2
    /\ BusOf(1).starting_price = Txt_750 /\ BusOf(1).detailed_fares = << >>
    /\ BusOf(2).starting_price = Txt_abc /\ BusOf(2).detailed_fares = << >>
    /\ stats.total_buses = 2 /\ stats.successfully_stored = 2
    /\ stats.errors = << >>
    /\ Len(bus_services) = 2 /\ Len(fare_data) = 1

RECURSIVE SepCount(_)
\* str.count(' to '): the occurrences of the separator, left to right
SepCount(s) ==
    LET k == Find(s, Separator, 1) IN
    IF k = 0 THEN 0
    ELSE 1 + SepCount(SubSeq(s, k + Len(Separator), Len(s)))

\* C10: a batch whose route label does not hold the separator exactly once is
\* over in its first step: it returns route_processed = false, total_buses = 0,
\* successfully_stored = 0 and one error message, and no collection changes.
C10_BadLabelAborts ==
    /\ [](SepCount(scrape_results.route) # 1 => pc \in {"idle", "done"})
    /\ [][(pc = "idle" /\ pc' # "idle" /\ SepCount(scrape_results'.route) # 1) =>
             /\ pc' = "done"
             /\ UNCHANGED store
             /\ stats'.route_processed = FALSE
             /\ stats'.total_buses = 0
             /\ stats'.successfully_stored = 0
             /\ Len(stats'.errors) = 1]_vars

\* after a stored batch, a batch labelled with two separators has returned
C10_Witness ==
    /\ pc = "done"
    /\ scrape_results.route = Label_AtoBtoC
    /\ scrape_results.buses # << >>
    /\ Len(stats.errors) = 1 /\ ~stats.route_processed
    /\ Len(routes) = 1 /\ Len(bus_services) = 1

-----------------------------------------------------------------------------
(* Storage failures while a batch is set up, and the session of a batch *)

\* insert_route or start_scraping_session raised in this batch
SetupFailed ==
    "insert_route" \in raised \/ "start_scraping_session" \in raised

\* C11: once insert_route or start_scraping_session has raised, the batch
\* processes no observation, and it returns route_processed = false with one
\* error message.
C11_SetupFailureAborts ==
    SetupFailed =>
        /\ obs = << >>
        /\ pc = "done" => (~stats.route_processed /\ Len(stats.errors) = 1)

\* C12: every ScrapingSession row appears as an active row with both counts
\* at 0; in every state the status of a row is active or completed and its
\* session_end is set exactly when it is completed; a row never disappears,
\* and the only change of status of a row is from active to completed.
C12_SessionLifecycle ==
    /\ [](\A k \in 1..Len(scraping_sessions) :
            /\ scraping_sessions[k].status \in {"active", "completed"}
            /\ scraping_sessions[k].session_end
                  <=> scraping_sessions[k].status = "completed")
    /\ [][/\ Len(scraping_sessions') >= Len(scraping_sessions)
          /\ \A k \in 1..Len(scraping_sessions') :
                IF k > Len(scraping_sessions)
                THEN /\ scraping_sessions'[k].status = "active"
                     /\ scraping_sessions'[k].total_buses_found = 0
                     /\ scraping_sessions'[k].successful_scrapes = 0
                ELSE \/ scraping_sessions'[k].status = scraping_sessions[k].status
                     \/ /\ scraping_sessions[k].status = "active"
                        /\ scraping_sessions'[k].status = "completed"]_vars

\* the session of an earlier batch is completed with its totals while the
\* session of the running batch is active
C12_Witness ==
    /\ Len(scraping_sessions) = 2
    /\ scraping_sessions[1].status = "completed"
    /\ scraping_sessions[1].session_end
    /\ scraping_sessions[1].total_buses_found = 1
    /\ scraping_sessions[2].status = "active"
    /\ ~scraping_sessions[2].session_end
    /\ session_id = 2

\* C13: when a batch has returned with route_processed = true, the session it
\* started is completed, its total_buses_found is the returned total_buses
\* (the number of observations of the payload) and its successful_scrapes is
\* the returned successfully_stored.
C13_ReturnedSessionCompleted ==
    (pc = "done" /\ stats.route_processed) =>
        /\ SessionFinished
        /\ scraping_sessions[session_id].total_buses_found = stats.total_buses
        /\ scraping_sessions[session_id].successful_scrapes = stats.successfully_stored

\* C15: with storage healthy, k returned batches of parseable label holding n
\* observations in all have left k ScrapingSession rows and n Service rows,
\* however often a payload was repeated, while every (source, destination)
\* pair has one Route row and every operator name one Operator row, and each
\* Service row refers to such a row.
C15_ServicesNotDeduplicated ==
    (faults = 0 /\ pc \in {"idle", "done"}) =>
        /\ Len(scraping_sessions) = accepted.batches
        /\ Len(bus_services) = accepted.observations
        /\ \A k \in 1..Len(routes) :
              RowsOf(routes[k].source, routes[k].destination) = {k}
        /\ \A k \in 1..Len(bus_operators) :
              OperatorRowsOf(bus_operators[k].name) = {k}
        /\ \A k \in 1..Len(bus_services) :
              /\ bus_services[k].route_id \in 1..Len(routes)
              /\ bus_services[k].operator_id \in 1..Len(bus_operators)
        /\ \A k \in 1..Len(scraping_sessions) :
              scraping_sessions[k].route_id \in 1..Len(routes)

\* the same payload of one observation has been ingested twice: one Route
\* row, one Operator row, two equal Service rows, two sessions of the same
\* route and date
C15_Witness ==
    /\ pc = "done" /\ faults = 0
    /\ accepted = [batches |-> 2, observations |-> 2]
    /\ Len(scrape_results.buses) = 1
    /\ Len(routes) = 1 /\ Len(bus_operators) = 1
    /\ Len(bus_services) = 2 /\ bus_services[1] = bus_services[2]
    /\ Len(fare_data) = 2
    /\ [fare_data[1] EXCEPT !.service_id = 2] = fare_data[2]
    /\ Len(scraping_sessions) = 2
    /\ scraping_sessions[1] = scraping_sessions[2]

-----------------------------------------------------------------------------
(* Numbers of the analytics: exact fractions n / d with d > 0, in lowest
   terms (the code computes them in floating point) *)

RECURSIVE GCD(_, _)
GCD(a, b) == IF b = 0 THEN a ELSE GCD(b, a % b)

Abs(x) == IF x < 0 THEN -x ELSE x

Frac(n, d) == LET g == GCD(Abs(n), d) IN [n |-> n \div g, d |-> d \div g]

Zero == Frac(0, 1)

\* the value of a stored number m / 10^e
FracOf(x) == Frac(x.m, Pow10(x.e))

FracAdd(a, b) == Frac(a.n * b.d + b.n * a.d, a.d * b.d)
FracSub(a, b) == Frac(a.n * b.d - b.n * a.d, a.d * b.d)
FracMul(a, b) == Frac(a.n * b.n, a.d * b.d)

\* a / b for b # 0
FracDiv(a, b) ==
    IF b.n > 0 THEN Frac(a.n * b.d, a.d * b.n) ELSE Frac(-(a.n * b.d), -(a.d * b.n))

FracLess(a, b) == a.n * b.d < b.n * a.d

\* the integer nearest to n / d, the even one of two that are equally near
RoundHalfEven(n, d) ==
    LET q == n \div d
        r == n - q * d
    IN  IF 2 * r < d THEN q
        ELSE IF 2 * r > d THEN q + 1
        ELSE IF q % 2 = 0 THEN q ELSE q + 1

\* round(x, 2)
Round2(x) == Frac(RoundHalfEven(x.n * 100, x.d), 100)

\* the dict {}: a dict is a record of its keys, and this one has none
EmptyDict == [keys |-> {}]

-----------------------------------------------------------------------------
(* The analytics queries of DatabaseManager and DataManager *)

\* get_demand_analysis's own window, in days
DemandWindowDays == 30

\* $lookup bus_services, $unwind: the Service row of FareData row k, if any
HasService(k) == fare_data[k].service_id \in 1..Len(bus_services)
ServiceOf(k) == bus_services[fare_data[k].service_id]

\* $lookup routes, $unwind: the Route row of that Service row, if any
HasRoute(k) == HasService(k) /\ ServiceOf(k).route_id \in 1..Len(routes)
RouteOf(k) == routes[ServiceOf(k).route_id]

\* $lookup bus_operators, $unwind: the Operator row of that Service row, if any
HasOperator(k) == HasService(k) /\ ServiceOf(k).operator_id \in 1..Len(bus_operators)
OperatorOf(k) == bus_operators[ServiceOf(k).operator_id]

\* $match: the route's pair, and scraped_at >= cutoff_date
MatchesRoute(k, source, destination, cutoff_date) ==
    /\ HasRoute(k)
    /\ RouteOf(k).source = source
    /\ RouteOf(k).destination = destination
    /\ fare_data[k].scraped_at >= cutoff_date

\* the FareData rows get_route_fare_history's pipeline keeps (lines 237-270)
HistoryRows(source, destination, days_back) ==
    { k \in 1..Len(fare_data) :
        HasOperator(k) /\ MatchesRoute(k, source, destination, now - days_back) }

\* $project (lines 274-284)
HistoryRecord(k) ==
    [_id |-> k,
     journey_date |-> fare_data[k].journey_date,
     operator_name |-> OperatorOf(k).name,
     bus_type |-> ServiceOf(k).bus_type,
     seat_category |-> fare_data[k].seat_category,
     fare |-> fare_data[k].fare,
     available_seats |-> fare_data[k].available_seats,
     scraped_at |-> fare_data[k].scraped_at]

\* a $sort that orders by fare first and journey_date second
SortsBefore_FareFirst(a, b) ==
    \/ FracLess(FracOf(a.fare), FracOf(b.fare))
    \/ a.fare = b.fare /\ a.journey_date > b.journey_date

\* $sort {"journey_date": -1, "fare": 1}: record a has to come before record b
SortsBefore(a, b) ==
    \/ a.journey_date > b.journey_date
    \/ a.journey_date = b.journey_date /\ FracLess(FracOf(a.fare), FracOf(b.fare))

RECURSIVE SortedOrders(_)
\* the orders of a set of rows the sort allows: a row comes first if no other
\* has to come before it (the order of rows with equal keys is the store's
\* choice)
SortedOrders(rows) ==
    IF rows = {} THEN { << >> }
    ELSE UNION { { << k >> \o rest : rest \in SortedOrders(rows \ {k}) } :
                 k \in { f \in rows :
                           \A o \in rows :
                              ~SortsBefore(HistoryRecord(o), HistoryRecord(f)) } }

\* the lists get_route_fare_history may return: the kept rows in an order the
\* sort allows
FareHistories(source, destination, days_back) ==
    { [i \in 1..Len(order) |-> HistoryRecord(order[i])] :
        order \in SortedOrders(HistoryRows(source, destination, days_back)) }

\* the FareData rows get_demand_analysis's pipeline keeps (lines 300-324)
DemandRows(source, destination) ==
    { k \in 1..Len(fare_data) :
        MatchesRoute(k, source, destination, now - DemandWindowDays) }

RECURSIVE SumOver(_, _)
\* the sum of value[k] over the k of a set
SumOver(value, S) ==
    IF S = {} THEN Zero
    ELSE LET k == CHOOSE x \in S : TRUE
         IN  FracAdd(value[k], SumOver(value, S \ {k}))

\* $group (lines 325-334) and lines 338-343
DemandAnalysis(source, destination) ==
    LET rows == DemandRows(source, destination)
        fares == [k \in rows |-> FracOf(fare_data[k].fare)]
        seats == [k \in rows |-> Frac(fare_data[k].available_seats, 1)]
        count == Frac(Cardinality(rows), 1)
    IN  IF rows = {} THEN EmptyDict
        ELSE [avg_fare |-> FracDiv(SumOver(fares, rows), count),
              min_fare |-> CHOOSE x \in { fares[k] : k \in rows } :
                              \A k \in rows : ~FracLess(fares[k], x),
              max_fare |-> CHOOSE x \in { fares[k] : k \in rows } :
                              \A k \in rows : ~FracLess(x, fares[k]),
              avg_available_seats |-> FracDiv(SumOver(seats, rows), count),
              total_records |-> Cardinality(rows)]

\* the trend taken from the earliest date in place of the latest
TrendPercent_EarliestDate(avg_fares_by_date) ==
    LET dates == DOMAIN avg_fares_by_date
        last == CHOOSE d \in dates : \A o \in dates : d >= o
        first == CHOOSE d \in dates : \A o \in dates : d <= o
        before == CHOOSE d \in dates \ {last} : \A o \in dates \ {last} : d >= o
        previous_avg == avg_fares_by_date[before]
    IN  IF Cardinality(dates) >= 2
        THEN FracMul(FracDiv(FracSub(avg_fares_by_date[first], previous_avg), previous_avg),
                     Frac(100, 1))
        ELSE Zero

\* lines 223-230: trend_percent, given that previous_avg is not zero
TrendPercent(avg_fares_by_date) ==
    LET dates == DOMAIN avg_fares_by_date
        last == CHOOSE d \in dates : \A o \in dates : d >= o
        before == CHOOSE d \in dates \ {last} : \A o \in dates \ {last} : d >= o
        recent_avg == avg_fares_by_date[last]
        previous_avg == avg_fares_by_date[before]
    IN  IF Cardinality(dates) >= 2
        THEN FracMul(FracDiv(FracSub(recent_avg, previous_avg), previous_avg),
                     Frac(100, 1))
        ELSE Zero

\* a direction that is 'up' from zero on
TrendDirection_UpAtZero(trend_percent) ==
    IF trend_percent.n >= 0 THEN "up" ELSE "down"

\* line 235
TrendDirection(trend_percent) ==
    IF trend_percent.n > 0 THEN "up"
    ELSE IF trend_percent.n < 0 THEN "down"
    ELSE "stable"

\* lines 225-227 divide by zero: the mean of the date before the last is 0
DividesByZero(avg_fares_by_date) ==
    LET dates == DOMAIN avg_fares_by_date
        last == CHOOSE d \in dates : \A o \in dates : d >= o
        before == CHOOSE d \in dates \ {last} : \A o \in dates \ {last} : d >= o
    IN  Cardinality(dates) >= 2 /\ avg_fares_by_date[before] = Zero

\* _calculate_price_trends: an empty history gives {} (lines 205-206); the
\* ZeroDivisionError of line 228 is caught and gives {} (lines 238-240)
_calculate_price_trends(fare_history) ==
    IF fare_history = << >> THEN EmptyDict
    ELSE LET fare == [k \in 1..Len(fare_history) |-> FracOf(fare_history[k].fare)]
             on(date) == { k \in 1..Len(fare_history) :
                             fare_history[k].journey_date = date }
             avg_fares_by_date ==
                 [date \in { fare_history[k].journey_date : k \in 1..Len(fare_history) } |->
                     FracDiv(SumOver(fare, on(date)), Frac(Cardinality(on(date)), 1))]
         IN  IF DividesByZero(avg_fares_by_date) THEN EmptyDict
             ELSE LET trend_percent == TrendPercent(avg_fares_by_date) IN
                  [average_fares_by_date |-> avg_fares_by_date,
                   trend_percentage |-> Round2(trend_percent),
                   trend_direction |-> TrendDirection(trend_percent)]

\* f"{source} to {destination}"
RouteLabel(source, destination) == source \o Separator \o destination

\* fare_history[:10]
RecentFares(fare_history) ==
    SubSeq(fare_history, 1, IF Len(fare_history) < 10 THEN Len(fare_history) ELSE 10)

\* the dict get_route_analytics builds (lines 189-195)
RouteAnalytics(source, destination, fare_history, demand_analysis) ==
    [route |-> RouteLabel(source, destination),
     total_records |-> Len(fare_history),
     demand_analysis |-> demand_analysis,
     recent_fares |-> RecentFares(fare_history),
     price_trends |-> _calculate_price_trends(fare_history)]

-----------------------------------------------------------------------------
(* The analytics queries called on a store that batches have filled *)

\* observations the batches before the queries stored
MaxStored == 2

\* one stored observation of an earlier batch: its route, its journey date,
\* how many days ago it was scraped, the fares of its detailed_fares, and
\* whether insert_service raised for it (its FareData rows then refer to no
\* Service row, whatever the route was)
StoredObservations ==
    [route_id : {1, 2}, journey_date : JourneyDates, age : {15, 45},
     fares : { << Txt_500 >>, << Txt_R1250, Txt_7_50 >> }, lost : {FALSE}]
    \cup
    [route_id : {1}, journey_date : JourneyDates, age : {15, 45},
     fares : { << Txt_500 >>, << Txt_R1250, Txt_7_50 >> }, lost : {TRUE}]

\* the lookback windows the caller asks for, in days
DaysBack == { 30, 60 }

RECURSIVE StoreOf(_, _)
\* the rows the batches of the observations os left, the clock being at
\* `today`: a session and (unless lost) a Service row per observation, and a
\* FareData row per fare
StoreOf(os, today) ==
    IF os = << >> THEN [services |-> << >>, fares |-> << >>, sessions |-> << >>]
    ELSE LET before == StoreOf(SubSeq(os, 1, Len(os) - 1), today)
             o == os[Len(os)]
             service == IF o.lost THEN NoneId ELSE Len(before.services) + 1
             bus == Bus("X", Txt_4_2stars, Txt_NA, Txt_12seats,
                        [i \in 1..Len(o.fares) |-> Fare("Seater", o.fares[i], Txt_12seats)])
         IN  [services |->
                 IF o.lost THEN before.services
                 ELSE InsertServiceRow(before.services, o.route_id, 1, bus,
                                       _extract_rating(bus.rating)),
              fares |->
                 before.fares \o
                 [i \in 1..Len(o.fares) |->
                     [DetailedFareRow(service, o.journey_date, bus.detailed_fares[i],
                                      _extract_price(bus.starting_price))
                        EXCEPT !.scraped_at = today - o.age]],
              sessions |->
                 UpdateSession(Append(before.sessions, SessionRow(o.route_id, o.journey_date)),
                               Len(before.sessions) + 1, 1, 1, "completed")]

Today == 100

InitAnalytics ==
    \E os \in SeqsUpTo(StoredObservations, MaxStored) :
        /\ now = Today
        /\ routes = << [source |-> << "A" >>, destination |-> << "B" >>],
                       [source |-> << "B" >>, destination |-> << "A" >>] >>
        /\ bus_operators = << [name |-> "X", rating |-> _extract_rating(Txt_4_2stars),
                               created_at |-> Today - 45] >>
        /\ bus_services = StoreOf(os, Today).services
        /\ fare_data = StoreOf(os, Today).fares
        /\ scraping_sessions = StoreOf(os, Today).sessions
        /\ pc = "idle"
        /\ scrape_results = NoPayload
        /\ stats = NewStats
        /\ route_id = NoneId
        /\ session_id = NoneId
        /\ bus_idx = 0
        /\ operator_id = NoneId
        /\ service_id = NoneId
        /\ fare_idx = 0
        /\ faults = 0
        /\ obs = << >>
        /\ raised = {}
        /\ started = Len(os)
        /\ submitted = Len(os)
        /\ calls = [c \in Callers |-> IdleCall]
        /\ accepted = [batches |-> Len(os), observations |-> Len(os)]
        /\ analytics = NoQuery

\* get_route_fare_history(source, destination, days_back); lines 290-292: the
\* aggregate raised
GetRouteFareHistory(source, destination, days_back) ==
    /\ analytics = NoQuery
    /\ \/ /\ \E fare_history \in FareHistories(source, destination, days_back) :
                analytics' = [call |-> "get_route_fare_history", source |-> source,
                              destination |-> destination, days_back |-> days_back,
                              raised |-> {}, result |-> fare_history]
          /\ UNCHANGED faults
       \/ /\ CanFault
          /\ faults' = faults + 1
          /\ analytics' = [call |-> "get_route_fare_history", source |-> source,
                           destination |-> destination, days_back |-> days_back,
                           raised |-> {"get_route_fare_history"}, result |-> << >>]
    /\ UNCHANGED <<store, pc, scrape_results, stats, route_id, session_id, bus_idx,
                   operator_id, service_id, fare_idx, obs, raised, started,
                   submitted, calls, accepted, now>>

\* get_demand_analysis(source, destination); lines 345-347: the aggregate raised
GetDemandAnalysis(source, destination) ==
    /\ analytics = NoQuery
    /\ \/ /\ analytics' = [call |-> "get_demand_analysis", source |-> source,
                           destination |-> destination, raised |-> {},
                           result |-> DemandAnalysis(source, destination)]
          /\ UNCHANGED faults
       \/ /\ CanFault
          /\ faults' = faults + 1
          /\ analytics' = [call |-> "get_demand_analysis", source |-> source,
                           destination |-> destination,
                           raised |-> {"get_demand_analysis"}, result |-> EmptyDict]
    /\ UNCHANGED <<store, pc, scrape_results, stats, route_id, session_id, bus_idx,
                   operator_id, service_id, fare_idx, obs, raised, started,
                   submitted, calls, accepted, now>>

\* get_route_analytics(source, destination, days_back), lines 186-195: both
\* queries (either of which may have raised and returned its empty value),
\* then the price trends
GetRouteAnalytics(source, destination, days_back) ==
    /\ analytics = NoQuery
    /\ \E failed \in SUBSET {"get_route_fare_history", "get_demand_analysis"} :
          /\ Cardinality(failed) <= MaxFaults - faults
          /\ faults' = faults + Cardinality(failed)
          /\ \E fare_history \in
                  IF "get_route_fare_history" \in failed THEN { << >> }
                  ELSE FareHistories(source, destination, days_back) :
                LET demand_analysis ==
                        IF "get_demand_analysis" \in failed THEN EmptyDict
                        ELSE DemandAnalysis(source, destination)
                IN  analytics' = [call |-> "get_route_analytics", source |-> source,
                                  destination |-> destination, days_back |-> days_back,
                                  raised |-> failed,
                                  result |-> RouteAnalytics(source, destination,
                                                            fare_history, demand_analysis)]
    /\ UNCHANGED <<store, pc, scrape_results, stats, route_id, session_id, bus_idx,
                   operator_id, service_id, fare_idx, obs, raised, started,
                   submitted, calls, accepted, now>>

\* the caller has the result
AnalyticsReturn ==
    /\ analytics # NoQuery
    /\ analytics' = NoQuery
    /\ UNCHANGED <<store, locals, started, submitted, calls, accepted, now>>

NextAnalytics ==
    \/ \E pair \in RoutePairs, days_back \in DaysBack :
          GetRouteFareHistory(pair[1], pair[2], days_back)
    \/ \E pair \in RoutePairs : GetDemandAnalysis(pair[1], pair[2])
    \/ \E pair \in RoutePairs, days_back \in DaysBack :
          GetRouteAnalytics(pair[1], pair[2], days_back)
    \/ AnalyticsReturn

SpecAnalytics == InitAnalytics /\ [][NextAnalytics]_vars

-----------------------------------------------------------------------------
(* _calculate_price_trends applied to a fare history *)

\* records of one fare history
MaxHistory == 3

\* the fares of the records: 0, 100, 150, 500, 500.02, 550 and 600
TrendFares ==
    { [m |-> f, e |-> 0] : f \in { 0, 100, 150, 500, 550, 600 } }
        \cup { [m |-> 50002, e |-> 2] }

\* what _calculate_price_trends reads of a record (lines 211-212)
TrendRecords == [journey_date : { 1, 2, 3 }, fare : TrendFares]

\* the call has not returned yet
Pending == [pending |-> TRUE]

InitTrend ==
    \E fare_history \in SeqsUpTo(TrendRecords, MaxHistory) :
        /\ analytics = [call |-> "_calculate_price_trends",
                        fare_history |-> fare_history, result |-> Pending]
        /\ now = Today
        /\ routes = << >>
        /\ bus_operators = << >>
        /\ bus_services = << >>
        /\ fare_data = << >>
        /\ scraping_sessions = << >>
        /\ pc = "idle"
        /\ scrape_results = NoPayload
        /\ stats = NewStats
        /\ route_id = NoneId
        /\ session_id = NoneId
        /\ bus_idx = 0
        /\ operator_id = NoneId
        /\ service_id = NoneId
        /\ fare_idx = 0
        /\ faults = 0
        /\ obs = << >>
        /\ raised = {}
        /\ started = 0
        /\ submitted = 0
        /\ calls = [c \in Callers |-> IdleCall]
        /\ accepted = [batches |-> 0, observations |-> 0]

\* the call runs and returns
CalculatePriceTrends ==
    /\ analytics.call = "_calculate_price_trends"
    /\ analytics.result = Pending
    /\ analytics' = [analytics EXCEPT
                        !.result = _calculate_price_trends(analytics.fare_history)]
    /\ UNCHANGED <<store, locals, started, submitted, calls, accepted, now>>

NextTrend == CalculatePriceTrends

SpecTrend == InitTrend /\ [][NextTrend]_vars

-----------------------------------------------------------------------------
(* The export and the list of routes, called on a store that batches have
   filled *)

\* the order of the characters of the place names
Letters == << "A", "B", "C" >>

RECURSIVE TextLess(_, _)
\* s < t for two strings
TextLess(s, t) ==
    IF t = << >> THEN FALSE
    ELSE IF s = << >> THEN TRUE
    ELSE LET rank(c) == CHOOSE i \in 1..Len(Letters) : Letters[i] = c IN
         \/ rank(Head(s)) < rank(Head(t))
         \/ Head(s) = Head(t) /\ TextLess(Tail(s), Tail(t))

\* export_data_to_csv, lines 361-387: the FareData rows that have a Service,
\* a Route and an Operator row
ExportJoined == { k \in 1..Len(fare_data) : HasRoute(k) /\ HasOperator(k) }

\* $project (lines 388-403): the document has these fields and no other
ExportRecord(k) ==
    [_id |-> k,
     source |-> RouteOf(k).source,
     destination |-> RouteOf(k).destination,
     operator_name |-> OperatorOf(k).name,
     bus_type |-> ServiceOf(k).bus_type,
     journey_date |-> fare_data[k].journey_date,
     seat_category |-> fare_data[k].seat_category,
     fare |-> fare_data[k].fare,
     available_seats |-> fare_data[k].available_seats,
     scraped_at |-> fare_data[k].scraped_at]

\* lines 354-357 and 409-410: with both arguments given, a $match on
\* "route.source" and "route.destination" is put at pipeline.insert(-1, ...),
\* that is between the $project and the $sort, where a document has no
\* field "route" any more
ExportMatches(record, source, destination) ==
    (~Falsy(source) /\ ~Falsy(destination)) =>
        /\ "route" \in DOMAIN record
        /\ record.route.source = source
        /\ record.route.destination = destination

\* $sort {"scraped_at": -1, "source": 1, "destination": 1}
ExportSortsBefore(a, b) ==
    \/ a.scraped_at > b.scraped_at
    \/ a.scraped_at = b.scraped_at /\ TextLess(a.source, b.source)
    \/ /\ a.scraped_at = b.scraped_at /\ a.source = b.source
       /\ TextLess(a.destination, b.destination)

RECURSIVE ExportOrders(_)
\* the orders of a set of documents the sort allows (the order of documents
\* with equal keys is the store's choice)
ExportOrders(S) ==
    IF S = {} THEN { << >> }
    ELSE UNION { { << x >> \o rest : rest \in ExportOrders(S \ {x}) } :
                 x \in { f \in S : \A o \in S : ~ExportSortsBefore(o, f) } }

\* the lists the aggregate of line 412 may return
ExportData(source, destination) ==
    ExportOrders({ r \in { ExportRecord(k) : k \in ExportJoined } :
                     ExportMatches(r, source, destination) })

\* the arguments of an export: a pair of places, or none
ExportArguments == RoutePairs \cup { << NoneText, NoneText >> }

\* export_route_data(source, destination, output_path), which is
\* export_data_to_csv(output_path, source, destination): the rows written to
\* the file (none, and no file, when there is no data) and the count
\* returned; lines 420-422: something raised, 0 is returned
ExportRouteData(source, destination) ==
    /\ analytics = NoQuery
    /\ \/ /\ \E data \in ExportData(source, destination) :
                analytics' = [call |-> "export_route_data", source |-> source,
                              destination |-> destination, raised |-> {},
                              file |-> data, result |-> Len(data)]
          /\ UNCHANGED faults
       \/ /\ CanFault
          /\ faults' = faults + 1
          /\ analytics' = [call |-> "export_route_data", source |-> source,
                           destination |-> destination,
                           raised |-> {"export_data_to_csv"},
                           file |-> << >>, result |-> 0]
    /\ UNCHANGED <<store, pc, scrape_results, stats, route_id, session_id, bus_idx,
                   operator_id, service_id, fare_idx, obs, raised, started,
                   submitted, calls, accepted, now>>

\* get_all_routes, first $lookup (lines 254-261): the Service rows of Route row r
ServicesOfRoute(r) == { s \in 1..Len(bus_services) : bus_services[s].route_id = r }

\* second $lookup (lines 262-269), localField "services._id": the FareData
\* rows whose service_id is one of these identities; a route without Service
\* rows has no such value, which $lookup takes as null, and null matches the
\* rows stored with service_id None
FaresOfRoute(r) ==
    LET ids == IF ServicesOfRoute(r) = {} THEN {NoneId} ELSE ServicesOfRoute(r)
    IN  { k \in 1..Len(fare_data) : fare_data[k].service_id \in ids }

\* $group and $project (lines 270-285): one entry per (source, destination),
\* the sizes of the joined lists summed
RouteEntries ==
    { [source |-> routes[r].source, destination |-> routes[r].destination,
       total_records |->
          Cardinality({ q \in (1..Len(routes)) \X (1..Len(fare_data)) :
                          /\ routes[q[1]].source = routes[r].source
                          /\ routes[q[1]].destination = routes[r].destination
                          /\ q[2] \in FaresOfRoute(q[1]) })] :
      r \in 1..Len(routes) }

RECURSIVE RouteOrders(_)
\* $sort {"total_records": -1} (lines 286-288): the orders it allows
RouteOrders(S) ==
    IF S = {} THEN { << >> }
    ELSE UNION { { << x >> \o rest : rest \in RouteOrders(S \ {x}) } :
                 x \in { f \in S : \A o \in S : o.total_records <= f.total_records } }

\* get_all_routes; lines 294-296: the aggregate raised
GetAllRoutes ==
    /\ analytics = NoQuery
    /\ \/ /\ \E entries \in RouteOrders(RouteEntries) :
                analytics' = [call |-> "get_all_routes", raised |-> {},
                              result |-> entries]
          /\ UNCHANGED faults
       \/ /\ CanFault
          /\ faults' = faults + 1
          /\ analytics' = [call |-> "get_all_routes", raised |-> {"get_all_routes"},
                           result |-> << >>]
    /\ UNCHANGED <<store, pc, scrape_results, stats, route_id, session_id, bus_idx,
                   operator_id, service_id, fare_idx, obs, raised, started,
                   submitted, calls, accepted, now>>

NextExport ==
    \/ \E arguments \in ExportArguments : ExportRouteData(arguments[1], arguments[2])
    \/ GetAllRoutes
    \/ AnalyticsReturn

SpecExport == InitAnalytics /\ [][NextExport]_vars

-----------------------------------------------------------------------------
(* insert_fare_data called on its own *)

\* the fares a caller passes: None, zero and two prices
DirectFares == { NoneNum, [m |-> 0, e |-> 0], [m |-> 500, e |-> 0], [m |-> 750, e |-> 2] }

\* the seat categories a caller passes
DirectCategories == { "Seater", "Standard" }

\* insert_fare_data(service_id, journey_date, seat_category, fare,
\* available_seats, starting_price): the document is built from the arguments
\* as they are and inserted; an exception of the store is printed and the
\* result is None
InsertFareData(service, journey_date, seat_category, fare) ==
    /\ analytics = NoQuery
    /\ Len(fare_data) < MaxStored
    /\ \/ /\ fare_data' = Append(fare_data,
                                 FareRow(service, journey_date, seat_category, fare,
                                         0, NoneNum))
          /\ analytics' = [call |-> "insert_fare_data", fare |-> fare,
                           before |-> fare_data, raised |-> {},
                           result |-> Len(fare_data) + 1]
          /\ UNCHANGED faults
       \/ /\ CanFault
          /\ faults' = faults + 1
          /\ analytics' = [call |-> "insert_fare_data", fare |-> fare,
                           before |-> fare_data, raised |-> {"insert_one"},
                           result |-> NoneId]
          /\ UNCHANGED fare_data
    /\ UNCHANGED <<routes, bus_operators, bus_services, scraping_sessions, pc,
                   scrape_results, stats, route_id, session_id, bus_idx,
                   operator_id, service_id, fare_idx, obs, raised, started,
                   submitted, calls, accepted, now>>

NextFare ==
    \/ \E service \in { NoneId, 1 }, journey_date \in JourneyDates,
          seat_category \in DirectCategories, fare \in DirectFares :
          InsertFareData(service, journey_date, seat_category, fare)
    \/ AnalyticsReturn

SpecFare == Init /\ [][NextFare]_vars

-----------------------------------------------------------------------------
(* Properties of the analytics *)

\* the FareData rows of the route (source, destination) scraped within the
\* last days_back days
RowsInWindow(source, destination, days_back) ==
    { k \in 1..Len(fare_data) :
        \E s \in 1..Len(bus_services), r \in 1..Len(routes) :
            /\ fare_data[k].service_id = s
            /\ bus_services[s].route_id = r
            /\ routes[r].source = source /\ routes[r].destination = destination
            /\ fare_data[k].scraped_at >= now - days_back }

\* C16: a get_route_fare_history(source, destination, days_back) that did not
\* raise returns each FareData row of the route scraped within the window once
\* and no other row, with the row's journey date and fare, later journey dates
\* first and, within a journey date, lower fares first.
C16_FareHistoryExactAndOrdered ==
    (analytics.call = "get_route_fare_history" /\ analytics.raised = {}) =>
        LET h == analytics.result IN
        /\ \A i, j \in 1..Len(h) : i # j => h[i]._id # h[j]._id
        /\ { h[i]._id : i \in 1..Len(h) } =
              RowsInWindow(analytics.source, analytics.destination, analytics.days_back)
        /\ \A i \in 1..Len(h) :
              /\ h[i].journey_date = fare_data[h[i]._id].journey_date
              /\ h[i].fare = fare_data[h[i]._id].fare
              /\ h[i].scraped_at = fare_data[h[i]._id].scraped_at
        /\ \A i, j \in 1..Len(h) :
              i < j =>
                 \/ h[i].journey_date > h[j].journey_date
                 \/ /\ h[i].journey_date = h[j].journey_date
                    /\ ~FracLess(FracOf(h[j].fare), FracOf(h[i].fare))

\* the three rows two batches of the route wrote come back in the opposite
\* order: the later journey date first, then the earlier date's fares from
\* the lower to the higher, while the store holds them as they were written
C16_Witness ==
    /\ analytics.call = "get_route_fare_history" /\ analytics.raised = {}
    /\ Len(fare_data) = 3
    /\ fare_data[1].journey_date = 1 /\ fare_data[2].journey_date = 1
    /\ fare_data[3].journey_date = 2
    /\ FracLess(FracOf(fare_data[2].fare), FracOf(fare_data[1].fare))
    /\ Len(analytics.result) = 3
    /\ analytics.result[1]._id = 3
    /\ analytics.result[2]._id = 2
    /\ analytics.result[3]._id = 1

\* C17: whatever days_back get_route_analytics is called with, the
\* demand_analysis it returns covers the FareData rows of the route scraped
\* within the last days_back days: its total_records is their number and the
\* number of fare-history records of the same call, and it is the empty
\* structure when there is no such row.
C17_DemandFollowsLookback ==
    (analytics.call = "get_route_analytics" /\ analytics.raised = {}) =>
        LET rows == RowsInWindow(analytics.source, analytics.destination,
                                 analytics.days_back)
            demand_analysis == analytics.result.demand_analysis
        IN  IF rows = {} THEN demand_analysis = EmptyDict
            ELSE /\ demand_analysis # EmptyDict
                 /\ demand_analysis.total_records = Cardinality(rows)
                 /\ demand_analysis.total_records = analytics.result.total_records

\* a _calculate_price_trends call that has returned
TrendReturned ==
    analytics.call = "_calculate_price_trends" /\ analytics.result # Pending

\* the journey dates of a fare history
DistinctDates(h) == { h[k].journey_date : k \in 1..Len(h) }

\* the latest journey date of a history, and the latest before that
LatestDate(h) == CHOOSE d \in DistinctDates(h) : \A o \in DistinctDates(h) : o <= d
SecondLatestDate(h) ==
    CHOOSE d \in DistinctDates(h) \ {LatestDate(h)} :
        \A o \in DistinctDates(h) \ {LatestDate(h)} : o <= d

RECURSIVE FareTotal(_, _)
\* the sum of the fares of the records of h on date d
FareTotal(h, d) ==
    IF h = << >> THEN Zero
    ELSE LET rest == FareTotal(Tail(h), d) IN
         IF Head(h).journey_date = d THEN FracAdd(FracOf(Head(h).fare), rest) ELSE rest

\* the mean fare of the records of h on date d
MeanFare(h, d) ==
    FracDiv(FareTotal(h, d),
            Frac(Cardinality({ k \in 1..Len(h) : h[k].journey_date = d }), 1))

\* C18 as stated: for every fare history with fewer than 2 distinct journey
\* dates, the empty history included, _calculate_price_trends returns a
\* structure with trend_percentage 0 and trend_direction 'stable'.
C18_FewDatesStable_AsStated ==
    (TrendReturned /\ Cardinality(DistinctDates(analytics.fare_history)) < 2) =>
        /\ analytics.result # EmptyDict
        /\ analytics.result.trend_percentage = Zero
        /\ analytics.result.trend_direction = "stable"

\* C18: for every fare history with exactly one journey date,
\* _calculate_price_trends returns a structure with trend_percentage 0 and
\* trend_direction 'stable'; for the empty history it returns the empty
\* structure.
C18_FewDatesStable ==
    (TrendReturned /\ Cardinality(DistinctDates(analytics.fare_history)) < 2) =>
        IF analytics.fare_history = << >>
        THEN analytics.result = EmptyDict
        ELSE /\ analytics.result # EmptyDict
             /\ analytics.result.trend_percentage = Zero
             /\ analytics.result.trend_direction = "stable"

\* a history of two different fares on one journey date came back stable at 0
C18_Witness ==
    /\ TrendReturned
    /\ Len(analytics.fare_history) = 2
    /\ DistinctDates(analytics.fare_history) = {2}
    /\ analytics.fare_history[1].fare # analytics.fare_history[2].fare
    /\ analytics.result # EmptyDict
    /\ analytics.result.trend_percentage = Zero
    /\ analytics.result.trend_direction = "stable"

C20_ZeroMeanGuarded ==
    LET h == analytics.fare_history IN
    (/\ TrendReturned
     /\ Cardinality(DistinctDates(h)) >= 2
     /\ MeanFare(h, SecondLatestDate(h)) = Zero) =>
        /\ analytics.result # EmptyDict
        /\ analytics.result.average_fares_by_date =
              [d \in DistinctDates(h) |-> MeanFare(h, d)]
        /\ analytics.result.trend_percentage = Zero
        /\ analytics.result.trend_direction = "stable"

\* the FareData rows of the route (source, destination)
RowsOfRoute(source, destination) ==
    { k \in 1..Len(fare_data) :
        \E s \in 1..Len(bus_services), r \in 1..Len(routes) :
            /\ fare_data[k].service_id = s
            /\ bus_services[s].route_id = r
            /\ routes[r].source = source /\ routes[r].destination = destination }

\* C21: an export that did not raise writes one row per FareData row it is
\* asked for, with the source and destination of the row's route, and returns
\* their number: the rows of the route (source, destination) when both
\* arguments are given, every stored FareData row when none is.
C21_ExportExact ==
    (analytics.call = "export_route_data" /\ analytics.raised = {}) =>
        LET file == analytics.file
            wanted == IF analytics.source = NoneText /\ analytics.destination = NoneText
                      THEN 1..Len(fare_data)
                      ELSE RowsOfRoute(analytics.source, analytics.destination)
        IN  /\ \A i, j \in 1..Len(file) : i # j => file[i]._id # file[j]._id
            /\ { file[i]._id : i \in 1..Len(file) } = wanted
            /\ \A i \in 1..Len(file) :
                  file[i]._id \in RowsOfRoute(file[i].source, file[i].destination)
            /\ analytics.result = Cardinality(wanted)

\* C22: a get_all_routes that did not raise returns one entry per stored
\* Route row, its total_records being the number of FareData rows of the
\* Service rows of that route (0 when there is none), entries with more
\* records first.
C22_RouteListExact ==
    (analytics.call = "get_all_routes" /\ analytics.raised = {}) =>
        LET entries == analytics.result IN
        /\ Len(entries) = Len(routes)
        /\ \A r \in 1..Len(routes) :
              \E i \in 1..Len(entries) :
                 entries[i] =
                    [source |-> routes[r].source, destination |-> routes[r].destination,
                     total_records |->
                        Cardinality(RowsOfRoute(routes[r].source, routes[r].destination))]
        /\ \A i, j \in 1..Len(entries) :
              i < j => entries[i].total_records >= entries[j].total_records

\* C23: insert_fare_data is itself a validation gate: a call whose fare is
\* absent or not greater than zero stores no row, leaves the store as it was
\* and returns None without raising.
C23_InsertFareDataValidates ==
    (analytics.call = "insert_fare_data" /\ ~PositiveFare(analytics.fare)) =>
        /\ fare_data = analytics.before
        /\ analytics.result = NoneId

\* the rating is absent or a value from 0 to 5
RatingInRange(rating) ==
    rating = NoneNum \/ (0 <= rating.m /\ rating.m <= 5 * Pow10(rating.e))

\* the rating text is missing, "N/A", holds no numeral, or its first numeral
\* is above 5
UnusableRating(text) ==
    \/ text = NoneText
    \/ text = NAText
    \/ FirstDigit(text) = 0
    \/ NumeralMatch(text).m > 5 * Pow10(NumeralMatch(text).e)

\* C24: the rating of every Operator row and every Service row is absent or
\* within 0..5; an observation whose rating text is missing, "N/A", without a
\* numeral or with a first numeral outside 0..5, stored without a storage
\* failure, leaves its Service row with an absent rating and is counted as
\* stored.
C24_RatingsInRange ==
    /\ \A k \in 1..Len(bus_operators) : RatingInRange(bus_operators[k].rating)
    /\ \A k \in 1..Len(bus_services) : RatingInRange(bus_services[k].rating)
    /\ \A k \in Healthy :
          UnusableRating(BusOf(k).rating) =>
              /\ obs[k].result = "True"
              /\ obs[k].services_after = obs[k].services_before + 1
              /\ obs[k].stored_after = obs[k].stored_before + 1
              /\ bus_services[obs[k].service].rating = NoneNum

\* a batch of the observation rated "6.0" and the one rated "abc" was stored
\* whole, both Service rows and the Operator row of the first without a rating
C24_Witness ==
    /\ pc = "done" /\ raised = {}
    /\ Len(obs) = 2
    /\ BusOf(1).rating = Txt_6_0 /\ BusOf(2).rating = Txt_abc
    /\ stats.successfully_stored = 2
    /\ bus_services[obs[1].service].rating = NoneNum
    /\ bus_services[obs[2].service].rating = NoneNum
    /\ \E o \in 1..Len(bus_operators) :
          /\ bus_operators[o].name = BusOf(1).operator_name
          /\ bus_operators[o].rating = NoneNum

\* C25: the starting-price fallback is chosen by the emptiness of
\* detailed_fares alone: an observation with nested fares never leaves a
\* "Standard" row, and when none of its nested entries has a fare above zero
\* while its starting_price parses above zero, it ends, stored without a
\* storage failure, with its Service row and no FareData row.
C25_FallbackOnlyWhenEmpty ==
    /\ \A k \in Finished :
          BusOf(k).detailed_fares # << >> =>
              \A n \in 1..Len(RowsWritten(k)) :
                  RowsWritten(k)[n].seat_category # "Standard"
    /\ \A k \in Healthy :
          (/\ BusOf(k).detailed_fares # << >>
           /\ \A n \in 1..Len(BusOf(k).detailed_fares) :
                 ~PositiveEntry(BusOf(k).detailed_fares[n])
           /\ ParsesPositive(BusOf(k).starting_price)) =>
              /\ obs[k].result = "True"
              /\ obs[k].services_after = obs[k].services_before + 1
              /\ obs[k].service = obs[k].services_after
              /\ obs[k].fares_after = obs[k].fares_before
              /\ \A f \in 1..Len(fare_data) : fare_data[f].service_id # obs[k].service

\* the observation priced "750" whose only nested entry has the fare "0" was
\* stored with a Service row and no FareData row
C25_Witness ==
    \E k \in Healthy :
        /\ Len(BusOf(k).detailed_fares) = 1
        /\ BusOf(k).detailed_fares[1].fare = Txt_0
        /\ BusOf(k).starting_price = Txt_750
        /\ obs[k].result = "True"
        /\ obs[k].services_after = obs[k].services_before + 1
        /\ RowsWritten(k) = << >>

\* C26: in every non-empty result of _calculate_price_trends the direction
\* agrees with the reported trend_percentage: 'stable' exactly when it is 0,
\* 'up' exactly when it is above 0, 'down' exactly when it is below 0.
C26_DirectionAgreesWithPercentage ==
    (TrendReturned /\ analytics.result # EmptyDict) =>
        LET percentage == analytics.result.trend_percentage
            direction == analytics.result.trend_direction
        IN  /\ (direction = "stable") = (percentage.n = 0)
            /\ (direction = "up") = (percentage.n > 0)
            /\ (direction = "down") = (percentage.n < 0)

====
